---- MODULE Spec2Model ----
(***************************************************************************)
(* Model of the API-key gated, rate-limited request pipeline:              *)
(*   lib/rate-limiter  (checkRateLimit, getWindowStart, getRateLimitConfig) *)
(*   lib/api-keys      (validateApiKey, hashApiKey)                         *)
(*   lib/api           (extractApiKey, handleRateLimit, withRateLimit,      *)
(*                      withRateLimitParams, addRateLimitHeaders)           *)
(* Every SQL statement group that the code runs without another statement  *)
(* in between is one step; the count SELECT and the upsert of              *)
(* checkRateLimit are separate statements on a database file shared by     *)
(* several server processes (WAL mode), so they are separate steps.        *)
(***************************************************************************)
EXTENDS Integers, Sequences, FiniteSets, TLC

\* ---------------------------------------------------------------- bounds
NumReqs == 3          \* requests in flight over a run
MaxM == 2             \* largest RATE_LIMIT_MAX drawn at startup
MaxTime == 1500       \* the clock stops advancing here (ms)
TickStep == 500       \* granularity of the clock (ms)
MaxKeys == 3          \* keys createApiKey ever issues, the stored two included
MaxGated == 1         \* gated requests in the runs of SpecKeys and SpecX
MaxServed == 2        \* requests in the runs of SpecFaults, SpecEnv, SpecAll

Reqs == 1..NumReqs
WindowChoices == {1000, 1500}   \* RATE_LIMIT_WINDOW_MS values drawn at startup

\* ---------------------------------------------------- program constants
HEX_LEN == 32
MS_PER_SECOND == 1000
STATUS_UNAUTHORIZED == 401
STATUS_TOO_MANY == 429
DUMMY_USER_ID == "user_1"

VARIABLES
  now,             \* system clock, ms since the epoch (Date.now())
  env,             \* process.env: RATE_LIMIT_MAX, RATE_LIMIT_WINDOW_MS
  api_keys,        \* table api_keys
  rate_limit_log,  \* table rate_limit_log
  pc,              \* per request: position in the gate
  hdr,             \* per request: the Authorization header, {} when absent
  ctx,             \* per request: what the handler is given (apiKey, userId)
  rl,              \* per request: locals and result of its checkRateLimit call
  response,        \* per request: the response returned by the wrapper
  handlerCalls,    \* per request: number of times the handler was invoked
  xhdr,            \* per request: the X-API-Key header, {} when absent
  at,              \* per request: `now` of its checkRateLimit call (line 53)
  handled,         \* per request: what its handler returned, {} before
  issued,          \* the results of createApiKey so far: id and plain key
  revoked,         \* the ids deleteApiKey has deleted so far
  ret,             \* the last return value of a repository function that
                   \* was called directly (not through the gate), {} at first
  leastRetention   \* the smallest retentionMs cleanupOldEntries was called
                   \* with so far, {} before its first call

vars == <<now, env, api_keys, rate_limit_log, pc, hdr, ctx, rl,
          response, handlerCalls, xhdr, at, handled, issued, revoked, ret,
          leastRetention>>

\* ------------------------------------------------------------ pure parts

\* String.prototype.toLowerCase on the strings the model presents.
Lower(s) ==
  CASE s = "Bearer" -> "bearer"
    [] s = "BEARER" -> "bearer"
    [] s = "RLK_"   -> "rlk_"
    [] OTHER        -> s

\* A presented key: prefix, then `len` characters; `hex` says whether all of
\* them are in [a-f0-9] ignoring case, `upper` whether letters are upper
\* case, `secret` names the random material.
PlainKey(prefix, secret, upper, len, hex) ==
  [prefix |-> prefix, secret |-> secret, upper |-> upper, len |-> len,
   hex |-> hex]

\* generateApiKey: "rlk_" + 16 random bytes in lower-case hex.
generateApiKey(secret) == PlainKey("rlk_", secret, FALSE, HEX_LEN, TRUE)

\* Variant of hashApiKey: the key itself is what gets stored.
hashApiKeyPlain(key) == key

\* hashApiKey: SHA-256, taken as collision free over the presented keys.
hashApiKey(key) == <<"sha256", key>>

\* An Authorization header value: scheme, `ws` white space characters, key.
AuthHeader(scheme, ws, key) == [scheme |-> scheme, ws |-> ws, key |-> key]

\* extractApiKey: /^Bearer\s+(rlk_[a-f0-9]{32})$/i on the header, the
\* captured group as presented (case kept); {} for null.
extractApiKey(authHeader) ==
  IF authHeader = {} THEN {}
  ELSE LET h == CHOOSE x \in authHeader : TRUE
       IN IF /\ Lower(h.scheme) = "bearer"
             /\ h.ws >= 1
             /\ Lower(h.key.prefix) = "rlk_"
             /\ h.key.len = HEX_LEN
             /\ h.key.hex
          THEN {h.key}
          ELSE {}

\* Date.prototype.toISOString / new Date(iso).getTime(): the text form keeps
\* whole seconds and the millisecond fraction.
toISOString(ms) == [s |-> ms \div MS_PER_SECOND, ms |-> ms % MS_PER_SECOND]
getTime(iso) == iso.s * MS_PER_SECOND + iso.ms

\* datetime('now') of SQLite: whole seconds.
datetimeNow(t) == [s |-> t \div MS_PER_SECOND]

\* Math.ceil(a / b) for a >= 0, b > 0.
CeilDiv(a, b) == (a + b - 1) \div b

Max(a, b) == IF a >= b THEN a ELSE b

\* getRateLimitConfig: read from the environment at every call.
getRateLimitConfig(e) ==
  [maxRequests |-> e.RATE_LIMIT_MAX, windowMs |-> e.RATE_LIMIT_WINDOW_MS]

\* Variant of getWindowStart: the window length taken in seconds.
getWindowStartCoarse(windowMs, t) ==
  toISOString((t \div (windowMs * MS_PER_SECOND)) * (windowMs * MS_PER_SECOND))

\* Variant of getWindowStart: Math.ceil instead of Math.floor.
getWindowStartCeil(windowMs, t) ==
  toISOString(((t + windowMs - 1) \div windowMs) * windowMs)

\* getWindowStart
getWindowStart(windowMs, t) == toISOString((t \div windowMs) * windowMs)

\* Variant of the record lookup: the api_key_id condition is missing.
SelectRowsAnyKey(log, apiKeyId, windowStart) ==
  {row \in log : row.window_start = windowStart}

\* SELECT request_count ... WHERE api_key_id = ? AND window_start = ?
SelectRows(log, apiKeyId, windowStart) ==
  {row \in log : row.api_key_id = apiKeyId /\ row.window_start = windowStart}

\* Variant of the count read: the row that was found is not looked at.
CurrentCountUnread(log, apiKeyId, windowStart) == 0

\* existing?.request_count || 0
CurrentCount(log, apiKeyId, windowStart) ==
  LET rows == SelectRows(log, apiKeyId, windowStart)
  IN IF rows = {} THEN 0 ELSE (CHOOSE row \in rows : TRUE).request_count

\* Variant of the upsert: INSERT OR REPLACE, the row restarts at 1.
UpsertReplace(log, apiKeyId, windowStart) ==
  (log \ SelectRows(log, apiKeyId, windowStart)) \cup
    {[api_key_id |-> apiKeyId, window_start |-> windowStart,
      request_count |-> 1]}

\* Variant of the upsert: INSERT OR IGNORE, a conflicting insert is dropped.
UpsertIgnore(log, apiKeyId, windowStart) ==
  IF SelectRows(log, apiKeyId, windowStart) = {}
  THEN log \cup {[api_key_id |-> apiKeyId, window_start |-> windowStart,
                  request_count |-> 1]}
  ELSE log

\* Variant of the upsert: no unique index, the incremented row is written
\* next to the row it was read from.
UpsertKeepOld(log, apiKeyId, windowStart) ==
  log \cup {[api_key_id |-> apiKeyId, window_start |-> windowStart,
             request_count |->
               CurrentCount(log, apiKeyId, windowStart) + 1]}

\* INSERT ... VALUES (?, ?, ?, 1) ON CONFLICT(api_key_id, window_start)
\* DO UPDATE SET request_count = request_count + 1
Upsert(log, apiKeyId, windowStart) ==
  LET rows == SelectRows(log, apiKeyId, windowStart)
  IN IF rows = {}
     THEN log \cup {[api_key_id |-> apiKeyId, window_start |-> windowStart,
                     request_count |-> 1]}
     ELSE (log \ rows) \cup
          {[row EXCEPT !.request_count = @ + 1] : row \in rows}

\* SELECT * FROM api_keys WHERE key_hash = ?
SelectByHash(keys, keyHash) == {k \in keys : k.key_hash = keyHash}

\* Variant of the last_used_at update: the WHERE clause is missing.
TouchLastUsedAll(keys, id, t) ==
  {[k EXCEPT !.last_used_at = {datetimeNow(t)}] : k \in keys}

\* UPDATE api_keys SET last_used_at = datetime('now') WHERE id = ?
TouchLastUsed(keys, id, t) ==
  {IF k.id = id THEN [k EXCEPT !.last_used_at = {datetimeNow(t)}] ELSE k :
     k \in keys}

\* -------------------------------------------------------------- options
\* A nullable value is a set with at most one element.
Get(opt) == CHOOSE x \in opt : TRUE

\* ------------------------------------------------------------ responses
NoHeaders == [Limit |-> {}, Remaining |-> {}, Reset |-> {}, RetryAfter |-> {}]

\* NextResponse.json(body, {status})
JsonResponse(status, body) ==
  [status |-> status, body |-> body, headers |-> NoHeaders]

ErrorBody(message, retryAfter) ==
  [error |-> {message}, retryAfter |-> retryAfter, payload |-> {}]

\* What a route handler returns: its own status and body, no quota headers
\* (the list handlers answer 200 with their data).
HandlerStatuses == {200}
HandlerResponse(status) ==
  JsonResponse(status, [error |-> {}, retryAfter |-> {}, payload |-> {"data"}])

\* Variant of addRateLimitHeaders: a new 200 response is built around the
\* body, with the quota headers only.
addRateLimitHeadersRebuilt(resp, remaining, resetAt, limit) ==
  [JsonResponse(200, resp.body) EXCEPT
     !.headers.Limit = {ToString(limit)},
     !.headers.Remaining = {ToString(remaining)},
     !.headers.Reset = {ToString(CeilDiv(resetAt, MS_PER_SECOND))}]

\* addRateLimitHeaders
addRateLimitHeaders(resp, remaining, resetAt, limit) ==
  [resp EXCEPT !.headers.Limit = {ToString(limit)},
               !.headers.Remaining = {ToString(remaining)},
               !.headers.Reset = {ToString(CeilDiv(resetAt, MS_PER_SECOND))}]

\* response.headers.set("Retry-After", ...)
setRetryAfter(resp, seconds) ==
  [resp EXCEPT !.headers.RetryAfter = {ToString(seconds)}]

\* Variant of the 429: the retry delay rounded down to whole seconds.
TooManyResponseFloor(result, config) ==
  LET retryAfterSeconds ==
        (IF result.retryAfterMs = {} THEN 0
         ELSE Get(result.retryAfterMs)) \div MS_PER_SECOND
      resp == JsonResponse(STATUS_TOO_MANY,
                ErrorBody("Rate limit exceeded", {retryAfterSeconds}))
  IN addRateLimitHeaders(setRetryAfter(resp, retryAfterSeconds), 0,
                         result.resetAt, config.maxRequests)

\* handleRateLimit, the branch for a denied checkRateLimit result.
TooManyResponse(result, config) ==
  LET retryAfterSeconds ==
        CeilDiv(IF result.retryAfterMs = {} THEN 0
                ELSE Get(result.retryAfterMs), MS_PER_SECOND)
      resp == JsonResponse(STATUS_TOO_MANY,
                ErrorBody("Rate limit exceeded", {retryAfterSeconds}))
  IN addRateLimitHeaders(setRetryAfter(resp, retryAfterSeconds), 0,
                         result.resetAt, config.maxRequests)

UnauthorizedResponse ==
  JsonResponse(STATUS_UNAUTHORIZED, ErrorBody("Invalid API key", {}))

\* addHeaders of an allowed outcome: identity without a key, the quota
\* headers of the request's own checkRateLimit result with one.
addHeaders(r_rl, resp) ==
  IF r_rl = {} THEN resp
  ELSE LET l == Get(r_rl)
           res == Get(l.result)
       IN addRateLimitHeaders(resp, res.remaining, res.resetAt,
                              l.config.maxRequests)

\* --------------------------------------------------- checkRateLimit parts
\* Variant of the denied result: the operands of the subtraction swapped.
DeniedResultSwapped(resetAt, t) ==
  [allowed |-> FALSE, remaining |-> 0, resetAt |-> resetAt,
   retryAfterMs |-> {Max(0, t - resetAt)}]

\* The denied result (lines 69-77).
DeniedResult(resetAt, t) ==
  [allowed |-> FALSE, remaining |-> 0, resetAt |-> resetAt,
   retryAfterMs |-> {Max(0, resetAt - t)}]

\* The allowed result (lines 88-92).
AllowedResult(config, currentCount, resetAt) ==
  [allowed |-> TRUE, remaining |-> config.maxRequests - currentCount - 1,
   resetAt |-> resetAt, retryAfterMs |-> {}]

\* Variants of the limit test: strict comparison; limit taken one too high.
LimitExceededStrict(currentCount, config) == currentCount > config.maxRequests
LimitExceededLate(currentCount, config) == currentCount >= config.maxRequests + 1

\* The limit test (line 69).
LimitExceeded(currentCount, config) == currentCount >= config.maxRequests

\* ---------------------------------------------------------------- state
Secrets == {"s1", "s2"}
StoredKeys ==
  {[id |-> "k1", user_id |-> "user_1",
    key_hash |-> hashApiKey(generateApiKey("s1")), last_used_at |-> {}],
   [id |-> "k2", user_id |-> "user_2",
    key_hash |-> hashApiKey(generateApiKey("s2")), last_used_at |-> {}]}

\* What createApiKey returned for the keys stored at the start.
IssuedAtStart ==
  {[id |-> "k1", plainKey |-> generateApiKey("s1")],
   [id |-> "k2", plainKey |-> generateApiKey("s2")]}

\* The Authorization headers a client may send.
Headers ==
  { {},
    {AuthHeader("Bearer", 1, generateApiKey("s1"))},
    {AuthHeader("Bearer", 1, generateApiKey("s2"))},
    {AuthHeader("Bearer", 1, generateApiKey("s9"))},
    {AuthHeader("Bearer", 1, PlainKey("RLK_", "s1", TRUE, HEX_LEN, TRUE))},
    {AuthHeader("Bearer", 1, PlainKey("rlk_", "s1", FALSE, HEX_LEN - 1, TRUE))} }

\* The state after startup, RATE_LIMIT_WINDOW_MS being one of windows.
InitWith(windows) ==
  /\ now = 0
  /\ env \in [RATE_LIMIT_MAX : 1..MaxM, RATE_LIMIT_WINDOW_MS : windows]
  /\ api_keys = StoredKeys
  /\ rate_limit_log = {}
  /\ pc = [r \in Reqs |-> "idle"]
  /\ hdr = [r \in Reqs |-> {}]
  /\ ctx = [r \in Reqs |-> {}]
  /\ rl = [r \in Reqs |-> {}]
  /\ response = [r \in Reqs |-> {}]
  /\ handlerCalls = [r \in Reqs |-> 0]
  /\ xhdr = [r \in Reqs |-> {}]
  /\ at = [r \in Reqs |-> {}]
  /\ handled = [r \in Reqs |-> {}]
  /\ issued = IssuedAtStart
  /\ revoked = {}
  /\ ret = {}
  /\ leastRetention = {}

Init == InitWith(WindowChoices)

\* -------------------------------------------------------------- actions
\* Time passes.
Tick ==
  /\ now + TickStep <= MaxTime
  /\ now' = now + TickStep
  /\ UNCHANGED <<env, api_keys, rate_limit_log, pc, hdr, ctx, rl,
                 response, handlerCalls, xhdr, at, handled,
                 leastRetention, issued,
                 revoked, ret>>

\* The number of checkRateLimit calls made so far for a key and window.
CallsStarted(calls, apiKeyId, windowStart) ==
  Cardinality({q \in Reqs : /\ calls[q] # {}
                            /\ Get(calls[q]).apiKeyId = apiKeyId
                            /\ Get(calls[q]).windowStart = windowStart})

\* checkRateLimit lines 53-66: the window and the count SELECT.
CheckLocals(apiKey, config) ==
  LET windowStart == getWindowStart(config.windowMs, now)
  IN [apiKeyId |-> apiKey.id, userId |-> apiKey.user_id, config |-> config,
      windowStart |-> windowStart,
      resetAt |-> getTime(windowStart) + config.windowMs,
      currentCount |-> CurrentCount(rate_limit_log, apiKey.id, windowStart),
      ord |-> CallsStarted(rl, apiKey.id, windowStart) + 1,
      result |-> {}]

\* Variant of the no-key branch: answered 401 like an unknown key.
NoKeyRejected(r) ==
  /\ response' = [response EXCEPT ![r] = {UnauthorizedResponse}]
  /\ pc' = [pc EXCEPT ![r] = "done"]
  /\ UNCHANGED <<api_keys, ctx, rl>>

\* handleRateLimit lines 93-104: no key extracted, the default identity.
NoKey(r) ==
  /\ ctx' = [ctx EXCEPT ![r] = {[apiKey |-> {}, userId |-> DUMMY_USER_ID]}]
  /\ pc' = [pc EXCEPT ![r] = "handler"]
  /\ UNCHANGED <<api_keys, rl, response>>

\* Variant of the unknown-key branch: falls back to the default identity.
InvalidKeyAsAnonymous(r) ==
  /\ ctx' = [ctx EXCEPT ![r] = {[apiKey |-> {}, userId |-> DUMMY_USER_ID]}]
  /\ pc' = [pc EXCEPT ![r] = "handler"]
  /\ UNCHANGED <<api_keys, rl, response>>

\* handleRateLimit lines 106-116: validateApiKey found nothing, the 401.
InvalidKey(r) ==
  /\ response' = [response EXCEPT ![r] = {UnauthorizedResponse}]
  /\ pc' = [pc EXCEPT ![r] = "done"]
  /\ UNCHANGED <<api_keys, ctx, rl>>

\* Variant of the 429 branch: the response is built but the wrapper goes
\* on to the handler.
ExceededNoReturn(r, l) ==
  LET result == DeniedResult(l.resetAt, now)
  IN /\ rl' = [rl EXCEPT ![r] = {[l EXCEPT !.result = {result}]}]
     /\ response' = [response EXCEPT ![r] = {TooManyResponse(result, l.config)}]
     /\ pc' = [pc EXCEPT ![r] = "handler"]

\* checkRateLimit lines 69-77 and handleRateLimit lines 122-143: the limit
\* is reached, the call returns denied and the gate returns the 429.
Exceeded(r, l) ==
  LET result == DeniedResult(l.resetAt, now)
  IN /\ rl' = [rl EXCEPT ![r] = {[l EXCEPT !.result = {result}]}]
     /\ response' = [response EXCEPT ![r] = {TooManyResponse(result, l.config)}]
     /\ pc' = [pc EXCEPT ![r] = "done"]

\* checkRateLimit goes on to line 79: the upsert is the call's next statement.
WithinLimit(r, l) ==
  /\ rl' = [rl EXCEPT ![r] = {l}]
  /\ pc' = [pc EXCEPT ![r] = "upsert"]
  /\ UNCHANGED response

\* validateApiKey lines 102-111 (last_used_at), then handleRateLimit lines
\* 118-121 with checkRateLimit lines 53-69: config, window, count SELECT and
\* the limit test.
ValidKey(r, apiKey) ==
  /\ api_keys' = TouchLastUsed(api_keys, apiKey.id, now)
  /\ LET l == CheckLocals(apiKey, getRateLimitConfig(env))
     IN IF LimitExceeded(l.currentCount, l.config)
        THEN Exceeded(r, l)
        ELSE WithinLimit(r, l)
  /\ UNCHANGED ctx

\* handleRateLimit lines 78-143 for a request with Authorization header h,
\* up to the point where checkRateLimit has read the count.
Gate(r, h) ==
  /\ pc[r] = "idle"
  /\ \A q \in Reqs : q < r => pc[q] # "idle"   \* numbered in arrival order
  /\ hdr' = [hdr EXCEPT ![r] = h]
  /\ LET plainKey == extractApiKey(h)
     IN IF plainKey = {}
        THEN NoKey(r)
        ELSE LET found == SelectByHash(api_keys, hashApiKey(Get(plainKey)))
             IN IF found = {} THEN InvalidKey(r)
                ELSE ValidKey(r, Get(found))
  /\ UNCHANGED <<now, env, rate_limit_log, handlerCalls, handled, issued,
                 revoked, ret, leastRetention>>

\* handleRateLimit for a request with Authorization header h and no
\* X-API-Key header.
handleRateLimit(r, h) == Gate(r, h) /\ UNCHANGED <<xhdr, at>>

\* A statement of the gate throws: handleRateLimit and the wrappers have no
\* try/catch, the exception leaves the gate and nothing is returned.
Throws(r) ==
  /\ pc' = [pc EXCEPT ![r] = "threw"]
  /\ UNCHANGED <<rl, ctx>>

\* Variant of a failing store: the exception is caught and the request goes
\* on with the default identity.
ThrowsSwallowed(r) ==
  /\ pc' = [pc EXCEPT ![r] = "handler"]
  /\ ctx' = [ctx EXCEPT ![r] = {[apiKey |-> {}, userId |-> DUMMY_USER_ID]}]
  /\ UNCHANGED rl

\* A statement run on the store throws (the database is locked, full or
\* gone).
StoreThrows(r) == Throws(r)

\* Variant of the upsert of a deleted key: foreign keys are not enforced,
\* the row is written and the call returns allowed.
ForeignKeyFailsNever(keys, apiKeyId) == FALSE

\* The INSERT of a row whose api_key_id is not in api_keys fails: FOREIGN KEY
\* (api_key_id) REFERENCES api_keys(id), with foreign_keys = ON.
ForeignKeyFails(keys, apiKeyId) == \A k \in keys : k.id # apiKeyId

\* checkRateLimit lines 79-92: the upsert and the allowed result; then
\* handleRateLimit lines 145-157: allowed, with the key and its owner.
Increment(r) ==
  /\ pc[r] = "upsert"
  /\ LET l == Get(rl[r])
     IN IF ForeignKeyFails(api_keys, l.apiKeyId)
        THEN /\ Throws(r)
             /\ UNCHANGED rate_limit_log
        ELSE /\ rate_limit_log' =
                  Upsert(rate_limit_log, l.apiKeyId, l.windowStart)
             /\ rl' = [rl EXCEPT ![r] =
                         {[l EXCEPT !.result =
                             {AllowedResult(l.config, l.currentCount,
                                            l.resetAt)}]}]
             /\ ctx' = [ctx EXCEPT ![r] =
                          {[apiKey |-> {l.apiKeyId}, userId |-> l.userId]}]
             /\ pc' = [pc EXCEPT ![r] = "handler"]
  /\ UNCHANGED <<now, env, api_keys, hdr, response, handlerCalls,
                 xhdr, at, handled, leastRetention, issued, revoked, ret>>

\* withRateLimit lines 166-175: the handler runs and returns resp, the
\* wrapper annotates it and returns it.
RespondWith(r, resp) ==
  /\ pc[r] = "handler"
  /\ handlerCalls' = [handlerCalls EXCEPT ![r] = @ + 1]
  /\ handled' = [handled EXCEPT ![r] = {resp}]
  /\ response' = [response EXCEPT ![r] = {addHeaders(rl[r], resp)}]
  /\ pc' = [pc EXCEPT ![r] = "done"]
  /\ UNCHANGED <<now, env, api_keys, rate_limit_log, hdr, ctx, rl,
                 xhdr, at, leastRetention, issued, revoked, ret>>

\* The handler answers with its usual response of the given status.
Respond(r, status) == RespondWith(r, HandlerResponse(status))

\* withRateLimit lines 160-177.
withRateLimit(r) == \E status \in HandlerStatuses : Respond(r, status)

\* withRateLimitParams lines 188-211: the same, after `await params`.
withRateLimitParams(r) == \E status \in HandlerStatuses : Respond(r, status)

Next ==
  \/ Tick
  \/ \E r \in Reqs, h \in Headers : handleRateLimit(r, h)
  \/ \E r \in Reqs : Increment(r)
  \/ \E r \in Reqs : withRateLimit(r)
  \/ \E r \in Reqs : withRateLimitParams(r)

Spec == Init /\ [][Next]_vars

\* The same gate when checkRateLimit calls do not overlap: a call starts
\* only when no other call is between its SELECT and its upsert (one server
\* process, where the call is synchronous).
NoCallInFlight == \A q \in Reqs : pc[q] # "upsert"

handleRateLimitSeq(r, h) == NoCallInFlight /\ handleRateLimit(r, h)

NextSeq ==
  \/ Tick
  \/ \E r \in Reqs, h \in Headers : handleRateLimitSeq(r, h)
  \/ \E r \in Reqs : Increment(r)
  \/ \E r \in Reqs : withRateLimit(r)
  \/ \E r \in Reqs : withRateLimitParams(r)

SpecSeq == Init /\ [][NextSeq]_vars

\* ------------------------------------------------ the key repository
\* The functions of api-keys/repository.ts called directly, each as one
\* step (they are synchronous), at a point where no checkRateLimit call
\* is between its SELECT and its upsert.

\* The users keys are created for.
Users == {"user_1", "user_2"}

\* crypto.randomUUID() of createApiKey's n-th call: an id not used before.
randomUUID(n) == "k" \o ToString(n)

\* crypto.randomBytes(16) of generateApiKey's n-th call: bytes not drawn
\* before.
randomBytes(n) == "s" \o ToString(n)

\* The row createApiKey inserts: INSERT INTO api_keys (id, user_id, key_hash,
\* name); last_used_at is NULL.
NewKeyRow(id, userId, plainKey) ==
  [id |-> id, user_id |-> userId,
   key_hash |-> hashApiKey(plainKey), last_used_at |-> {}]

\* createApiKey, at any point of other requests' calls.
createApiKeyCall(userId) ==
  /\ Cardinality(issued) < MaxKeys
  /\ LET n == Cardinality(issued) + 1
         id == randomUUID(n)
         plainKey == generateApiKey(randomBytes(n))
         apiKey == NewKeyRow(id, userId, plainKey)
     IN /\ api_keys' = api_keys \cup {apiKey}
        /\ issued' = issued \cup {[id |-> id, plainKey |-> plainKey]}
        /\ ret' = {[op |-> "createApiKey",
                    value |-> {[apiKey |-> apiKey, plainKey |-> plainKey]}]}
  /\ UNCHANGED <<now, env, rate_limit_log, pc, hdr, ctx, rl, response,
                 handlerCalls, xhdr, at, handled, leastRetention, revoked>>

\* createApiKey
createApiKey(userId) == NoCallInFlight /\ createApiKeyCall(userId)

\* SELECT * FROM api_keys WHERE id = ?
SelectById(keys, id) == {k \in keys : k.id = id}

\* getApiKeyById
getApiKeyById(id) ==
  /\ NoCallInFlight
  /\ ret' = {[op |-> "getApiKeyById", value |-> SelectById(api_keys, id)]}
  /\ UNCHANGED <<now, env, api_keys, rate_limit_log, pc, hdr, ctx, rl,
                 response, handlerCalls, xhdr, at, handled,
                 leastRetention, issued, revoked>>

\* getApiKeys: the rows of a user (their order is not modelled).
getApiKeys(userId) ==
  /\ NoCallInFlight
  /\ ret' = {[op |-> "getApiKeys",
              value |-> {k \in api_keys : k.user_id = userId}]}
  /\ UNCHANGED <<now, env, api_keys, rate_limit_log, pc, hdr, ctx, rl,
                 response, handlerCalls, xhdr, at, handled,
                 leastRetention, issued, revoked>>

\* validateApiKey: the row found by hash is returned as it was read, and
\* its last_used_at is updated.
validateApiKey(plainKey) ==
  /\ NoCallInFlight
  /\ LET apiKey == SelectByHash(api_keys, hashApiKey(plainKey))
     IN /\ api_keys' = IF apiKey = {} THEN api_keys
                       ELSE TouchLastUsed(api_keys, Get(apiKey).id, now)
        /\ ret' = {[op |-> "validateApiKey", arg |-> plainKey,
                    value |-> apiKey]}
  /\ UNCHANGED <<now, env, rate_limit_log, pc, hdr, ctx, rl, response,
                 handlerCalls, xhdr, at, handled,
                 leastRetention, issued, revoked>>

\* Variant of the key DELETE: the statement is prepared but not run.
DeleteKeyRowNotRun(keys, id) == keys

\* DELETE FROM api_keys WHERE id = ?
DeleteKeyRow(keys, id) == {k \in keys : k.id # id}

\* The rows of rate_limit_log left by a delete of key id: FOREIGN KEY
\* (api_key_id) REFERENCES api_keys(id) ON DELETE CASCADE, foreign_keys = ON.
OnDeleteCascade(log, id) == {row \in log : row.api_key_id # id}

\* deleteApiKey, at any point of other requests' calls.
deleteApiKeyCall(id) ==
  /\ IF SelectById(api_keys, id) = {}
     THEN /\ ret' = {[op |-> "deleteApiKey", arg |-> id, value |-> {FALSE}]}
          /\ UNCHANGED <<api_keys, rate_limit_log, revoked>>
     ELSE /\ api_keys' = DeleteKeyRow(api_keys, id)
          /\ rate_limit_log' = OnDeleteCascade(rate_limit_log, id)
          /\ revoked' = revoked \cup {id}
          /\ ret' = {[op |-> "deleteApiKey", arg |-> id, value |-> {TRUE}]}
  /\ UNCHANGED <<now, env, pc, hdr, ctx, rl, response, handlerCalls,
                 xhdr, at, handled, leastRetention, issued>>

\* deleteApiKey
deleteApiKey(id) == NoCallInFlight /\ deleteApiKeyCall(id)

\* The keys createApiKey can issue within the bound, and their ids.
IssuableKeys == {generateApiKey(randomBytes(n)) : n \in 1..MaxKeys}
IssuableIds == {randomUUID(n) : n \in 1..MaxKeys}

\* The Authorization headers carrying a well-formed key that was or can
\* be issued.
KeyHeaders == {{AuthHeader("Bearer", 1, key)} : key \in IssuableKeys}

\* The requests that arrive at the gate in SpecKeys and SpecX.
GatedReqs == 1..MaxGated

\* The repository calls, and the calls of the gate up to checkRateLimit's
\* return (the handler and the response to an admitted request play no
\* part here).
NextKeys ==
  \/ \E userId \in Users : createApiKey(userId)
  \/ \E plainKey \in IssuableKeys : validateApiKey(plainKey)
  \/ \E id \in IssuableIds : deleteApiKey(id)
  \/ \E r \in GatedReqs, h \in KeyHeaders : handleRateLimitSeq(r, h)
  \/ \E r \in GatedReqs : Increment(r)

SpecKeys == Init /\ [][NextKeys]_vars

\* The list item GET /api/api-keys builds from a row: id, name, createdAt,
\* lastUsedAt (name and created_at are not modelled).
ListItem(key) == [id |-> key.id, lastUsedAt |-> key.last_used_at]

\* GET of the api-keys route: the body of the list response for userId.
GET(userId) ==
  /\ NoCallInFlight
  /\ ret' = {[op |-> "GET",
              value |-> {ListItem(key) :
                           key \in {k \in api_keys : k.user_id = userId}}]}
  /\ UNCHANGED <<now, env, api_keys, rate_limit_log, pc, hdr, ctx, rl,
                 response, handlerCalls, xhdr, at, handled,
                 leastRetention, issued,
                 revoked>>

NextSecret ==
  \/ Tick
  \/ \E userId \in Users : createApiKey(userId)
  \/ \E id \in IssuableIds : getApiKeyById(id)
  \/ \E userId \in Users : getApiKeys(userId)
  \/ \E plainKey \in IssuableKeys : validateApiKey(plainKey)
  \/ \E id \in IssuableIds : deleteApiKey(id)
  \/ \E userId \in Users : GET(userId)

SpecSecret == Init /\ [][NextSecret]_vars

\* ------------------------------------------------ status and cleanup
\* Variant of the status result: remaining not clamped at 0.
StatusResultUnclamped(config, count, resetAt) ==
  [count |-> count, remaining |-> config.maxRequests - count,
   resetAt |-> resetAt]

\* getRateLimitStatus lines 117-121: the returned object.
StatusResult(config, count, resetAt) ==
  [count |-> count, remaining |-> Max(0, config.maxRequests - count),
   resetAt |-> resetAt]

\* getRateLimitStatus, called directly with the configuration of the
\* environment; it may run at any point of other requests' calls.
getRateLimitStatus(apiKeyId) ==
  /\ LET config == getRateLimitConfig(env)
         windowStart == getWindowStart(config.windowMs, now)
         resetAt == getTime(windowStart) + config.windowMs
         count == CurrentCount(rate_limit_log, apiKeyId, windowStart)
     IN ret' = {[op |-> "getRateLimitStatus", arg |-> apiKeyId,
                 value |-> {StatusResult(config, count, resetAt)}]}
  /\ UNCHANGED <<now, env, api_keys, rate_limit_log, pc, hdr, ctx, rl,
                 response, handlerCalls, xhdr, at, handled,
                 leastRetention, issued, revoked>>

\* The Authorization headers carrying one of the stored keys.
StoredKeyHeaders ==
  {{AuthHeader("Bearer", 1, i.plainKey)} : i \in IssuedAtStart}

\* The ids of the stored keys.
StoredIds == {k.id : k \in StoredKeys}

\* The retentionMs values cleanupOldEntries is called with: below every
\* window length, and as long as the shorter one.
RetentionChoices == {0, 1000}

\* Variant of the comparison: window_start <= ?
IsoLessOrEqual(a, b) == a.s < b.s \/ (a.s = b.s /\ a.ms <= b.ms)

\* window_start < ? on two ISO timestamps: SQLite compares the texts, and
\* texts of this one format order as their fields do, seconds first.
IsoLess(a, b) == a.s < b.s \/ (a.s = b.s /\ a.ms < b.ms)

\* Variant of the cutoff: the retention period is not subtracted.
CutoffWithoutRetention(t, retentionMs) == toISOString(t)

\* new Date(Date.now() - retentionMs).toISOString()
Cutoff(t, retentionMs) == toISOString(t - retentionMs)

\* Min(a, b)
Min(a, b) == IF a <= b THEN a ELSE b

\* cleanupOldEntries, called directly; it may run at any point of other
\* requests' calls.
cleanupOldEntries(retentionMs) ==
  /\ LET cutoff == Cutoff(now, retentionMs)
         old == {row \in rate_limit_log : IsoLess(row.window_start, cutoff)}
     IN /\ rate_limit_log' = rate_limit_log \ old
        /\ ret' = {[op |-> "cleanupOldEntries", arg |-> retentionMs,
                    value |-> {Cardinality(old)}]}
  /\ leastRetention' =
       IF leastRetention = {} THEN {retentionMs}
       ELSE {Min(Get(leastRetention), retentionMs)}
  /\ UNCHANGED <<now, env, api_keys, pc, hdr, ctx, rl, response,
                 handlerCalls, xhdr, at, handled, issued, revoked>>

\* The calls of the gate up to checkRateLimit's return (the handler and the
\* response play no part here), with cleanupOldEntries at any point.
NextCleanup ==
  \/ Tick
  \/ \E retentionMs \in RetentionChoices : cleanupOldEntries(retentionMs)
  \/ \E r \in Reqs, h \in StoredKeyHeaders : handleRateLimitSeq(r, h)
  \/ \E r \in Reqs : Increment(r)

SpecCleanup == Init /\ [][NextCleanup]_vars

\* The calls of the gate up to checkRateLimit's return (the handler and the
\* response play no part here), with getRateLimitStatus at any point.
NextStatus ==
  \/ Tick
  \/ \E apiKeyId \in StoredIds : getRateLimitStatus(apiKeyId)
  \/ \E r \in Reqs, h \in StoredKeyHeaders : handleRateLimit(r, h)
  \/ \E r \in Reqs : Increment(r)

SpecStatus == Init /\ [][NextStatus]_vars

\* ------------------------------------------------ the X-API-Key header
\* The X-API-Key header values a client may send: none, or a stored key as
\* the documentation page shows it ("X-API-Key: rlk_...").
XApiKeyHeaders == {{}} \cup {{i.plainKey} : i \in IssuedAtStart}

\* handleRateLimit for a request with Authorization header h and X-API-Key
\* header x: extractApiKey reads request.headers.get("Authorization") and
\* nothing else.
handleRateLimitX(r, h, x) ==
  /\ NoCallInFlight
  /\ Gate(r, h)
  /\ xhdr' = [xhdr EXCEPT ![r] = x]
  /\ UNCHANGED at

NextX ==
  \/ Tick
  \/ \E r \in GatedReqs, h \in {{}} \cup StoredKeyHeaders,
        x \in XApiKeyHeaders : handleRateLimitX(r, h, x)
  \/ \E r \in GatedReqs : Increment(r)
  \/ \E r \in GatedReqs : withRateLimit(r)

SpecX == Init /\ [][NextX]_vars

\* ================================================================ claims
\* Helpers for stating the claims.
Called(r) == rl[r] # {}
Returned(r) == Called(r) /\ Get(rl[r]).result # {}
Call(r) == Get(rl[r])
Result(r) == Get(Call(r).result)
SameKeyWindow(q, r) ==
  /\ Call(q).apiKeyId = Call(r).apiKeyId
  /\ Call(q).windowStart = Call(r).windowStart
\* The calls made for the key and window of r's call.
CallsLike(r) == {q \in Reqs : Called(q) /\ SameKeyWindow(q, r)}
Admitted(r) == Returned(r) /\ Result(r).allowed
Refused(r) == Returned(r) /\ ~Result(r).allowed
StoredCount(r) ==
  CurrentCount(rate_limit_log, Call(r).apiKeyId, Call(r).windowStart)

\* C1: when checkRateLimit is called one call after another for one key in
\* one window, starting from no record, the i-th call (i <= maxRequests)
\* returns allowed with remaining maxRequests - i and no retryAfterMs, and
\* call maxRequests + 1 returns denied, remaining 0 and retryAfterMs > 0.
C1_SequentialQuota ==
  \A r \in Reqs : Returned(r) =>
    LET M == Call(r).config.maxRequests
        i == Call(r).ord
    IN /\ i <= M => /\ Result(r).allowed
                    /\ Result(r).remaining = M - i
                    /\ Result(r).retryAfterMs = {}
       /\ i = M + 1 => /\ ~Result(r).allowed
                       /\ Result(r).remaining = 0
                       /\ Result(r).retryAfterMs # {}
                       /\ Get(Result(r).retryAfterMs) > 0

\* C1 witness: with maxRequests = 2, calls 1, 2 and 3 of one window returned.
C1_Witness ==
  \E r \in Reqs :
    /\ Returned(r) /\ Call(r).config.maxRequests = 2 /\ Call(r).ord = 3
    /\ \A q \in CallsLike(r) : Returned(q)
    /\ {Call(q).ord : q \in CallsLike(r)} = {1, 2, 3}

\* A step in which request r's checkRateLimit call returns denied.
DenialStep(r) == ~Called(r) /\ Refused(r)'

\* C2: a checkRateLimit call that returns allowed = false changes nothing in
\* the counter store, and (calls not overlapping) finds and leaves the
\* stored count of its key and window at exactly maxRequests.
C2_DenialLeavesStore ==
  [][\A r \in Reqs : DenialStep(r) =>
        /\ rate_limit_log' = rate_limit_log
        /\ StoredCount(r)' = Call(r)'.config.maxRequests]_vars

\* C2 witness: two calls were denied in a window after its exhaustion.
C2_Witness ==
  \E q, r \in Reqs :
    /\ q # r /\ Refused(q) /\ Refused(r) /\ SameKeyWindow(q, r)
    /\ StoredCount(r) = Call(r).config.maxRequests

\* C3: when 2N calls for one key in one window with maxRequests = N have
\* run, their SELECT and upsert steps interleaved in any way, exactly N
\* returned allowed and exactly N returned denied.
C3_ExactlyNAdmitted ==
  \A r \in Reqs :
    (/\ Called(r)
     /\ \A q \in CallsLike(r) : Returned(q)
     /\ Cardinality(CallsLike(r)) = 2 * Call(r).config.maxRequests)
    => /\ Cardinality({q \in CallsLike(r) : Admitted(q)})
            = Call(r).config.maxRequests
       /\ Cardinality({q \in CallsLike(r) : Refused(q)})
            = Call(r).config.maxRequests

\* C4: no lost updates: the stored count of a key and window equals the
\* number of calls for it that have executed their upsert, all of which
\* return allowed; a call that returns denied has not incremented it.
C4_NoLostUpdates ==
  /\ \A r \in Reqs : Called(r) =>
       StoredCount(r) = Cardinality({q \in CallsLike(r) : Admitted(q)})
  /\ \A row \in rate_limit_log :
       row.request_count =
         Cardinality({q \in Reqs : /\ Admitted(q)
                                   /\ Call(q).apiKeyId = row.api_key_id
                                   /\ Call(q).windowStart = row.window_start})

\* C4 witness: three calls that all read count 0 have all incremented, and
\* the record stands at 3.
C4_Witness ==
  \E r \in Reqs :
    /\ Admitted(r) /\ StoredCount(r) = 3
    /\ \A q \in CallsLike(r) : Admitted(q) /\ Call(q).currentCount = 0

\* C5: the stored count of a key and window never exceeds maxRequests + 1.
C5_OvershootAtMostOne ==
  \A r \in Reqs : Called(r) =>
    StoredCount(r) <= Call(r).config.maxRequests + 1

\* Terminal outcomes of the gate for request r.
Allowed(r) == ctx[r] # {}
Denied(r) ==
  /\ response[r] # {}
  /\ Get(response[r]).status \in {401, 429}
  /\ Get(response[r]).body.error # {}

\* C6: every request ends in exactly one of Allowed and Denied; an allowed
\* request's handler is invoked exactly once, a denied request's never.
C6_OneOutcome ==
  \A r \in Reqs :
    /\ handlerCalls[r] <= 1
    /\ Denied(r) => handlerCalls[r] = 0
    /\ pc[r] = "done" =>
         /\ Allowed(r) <=> ~Denied(r)
         /\ Allowed(r) => handlerCalls[r] = 1

\* C6 witness: one request allowed, one answered 401, one answered 429.
C6_Witness ==
  \E a, b, c \in Reqs :
    /\ pc[a] = "done" /\ Allowed(a) /\ handlerCalls[a] = 1
    /\ pc[b] = "done" /\ Get(response[b]).status = 401
    /\ pc[c] = "done" /\ Get(response[c]).status = 429

\* The header carries a key of the expected form that no stored credential
\* matches.
UnknownKey(h) ==
  /\ extractApiKey(h) # {}
  /\ \A k \in api_keys : k.key_hash # hashApiKey(Get(extractApiKey(h)))

\* Request r takes its first step.
Arrives(r) == pc[r] = "idle" /\ pc'[r] # "idle"

\* C7: a request with a well-formed key that matches no stored credential is
\* answered 401 whatever the counters hold; checkRateLimit is not called, no
\* counter record and no credential changes, the handler is not invoked.
C7_UnknownKeyIs401 ==
  /\ [](\A r \in Reqs : (pc[r] # "idle" /\ UnknownKey(hdr[r])) =>
          /\ pc[r] = "done"
          /\ Get(response[r]).status = 401
          /\ Get(response[r]).body.error = {"Invalid API key"}
          /\ ~Called(r)
          /\ ~Allowed(r)
          /\ handlerCalls[r] = 0)
  /\ [][\A r \in Reqs : (Arrives(r) /\ UnknownKey(hdr'[r])) =>
          /\ rate_limit_log' = rate_limit_log
          /\ api_keys' = api_keys]_vars

\* C7 witness: an unknown key was answered 401 after requests of the same
\* run exhausted a key's quota in the window that is still current.
C7_Witness ==
  \E r, q \in Reqs :
    /\ r > q /\ pc[r] = "done" /\ UnknownKey(hdr[r])
    /\ Refused(q)
    /\ Call(q).windowStart = getWindowStart(Call(q).config.windowMs, now)
    /\ StoredCount(q) >= Call(q).config.maxRequests

C9_MalformedRejected ==
  \A r \in Reqs :
    (/\ pc[r] = "done"
     /\ hdr[r] # {}
     /\ (extractApiKey(hdr[r]) = {} \/ UnknownKey(hdr[r])))
    => Denied(r) /\ handlerCalls[r] = 0

\* C10: a request with a valid key whose count read is >= maxRequests is
\* answered 429 with Retry-After = ceil(retryAfterMs / 1000) >= 1, the same
\* number in the body, X-RateLimit-Remaining 0, X-RateLimit-Limit
\* maxRequests and X-RateLimit-Reset the window end in seconds; no other
\* response carries Retry-After.
C10_TooManyResponse ==
  \A r \in Reqs :
    /\ (Called(r) /\ Call(r).currentCount >= Call(r).config.maxRequests) =>
         LET resp == Get(response[r])
             ms == Get(Result(r).retryAfterMs)
             secs == (ms \div 1000) + (IF ms % 1000 = 0 THEN 0 ELSE 1)
             windowEnd == getTime(Call(r).windowStart)
                            + Call(r).config.windowMs
         IN /\ pc[r] = "done" /\ response[r] # {}
            /\ resp.status = 429
            /\ secs >= 1
            /\ resp.headers.RetryAfter = {ToString(secs)}
            /\ resp.body.retryAfter = {secs}
            /\ resp.headers.Remaining = {"0"}
            /\ resp.headers.Limit = {ToString(Call(r).config.maxRequests)}
            /\ resp.headers.Reset =
                 {ToString((windowEnd \div 1000)
                           + (IF windowEnd % 1000 = 0 THEN 0 ELSE 1))}
    /\ (response[r] # {} /\ Get(response[r]).status # 429) =>
         Get(response[r]).headers.RetryAfter = {}

\* C10 witness: a 429 whose retry delay is not a whole number of seconds and
\* whose window does not end on a whole second, next to an allowed response.
C10_Witness ==
  \E r, q \in Reqs :
    /\ Refused(r) /\ Get(Result(r).retryAfterMs) % 1000 # 0
    /\ Call(r).resetAt % 1000 # 0
    /\ pc[q] = "done" /\ Admitted(q)

\* A step in which request r's upsert runs and its call returns allowed.
IncrementStep(r) == pc[r] = "upsert" /\ pc'[r] = "handler"

\* C11: on an allowed response of a request with a key, X-RateLimit-Remaining
\* is maxRequests minus the count stored for the key and window right after
\* the request's own increment, also when calls interleave.
C11_RemainingIsLeft ==
  /\ [][\A r \in Reqs : IncrementStep(r) =>
          Result(r)'.remaining =
            Call(r)'.config.maxRequests - StoredCount(r)']_vars
  /\ [](\A r \in Reqs : (pc[r] = "done" /\ Admitted(r)) =>
          Get(response[r]).headers.Remaining
            = {ToString(Result(r).remaining)})

\* A step in which the gate denies request r: r arrives and is answered at
\* once with the gate's 401 or 429.
DeniedStep(r) == Arrives(r) /\ Denied(r)'

\* C12 as claimed: a request the gate denies changes neither the counter
\* store nor the credential store, last_used_at included.
C12_DenialMutatesNothing ==
  [][\A r \in Reqs : DeniedStep(r) =>
        /\ rate_limit_log' = rate_limit_log
        /\ api_keys' = api_keys]_vars

\* The credential rows of `keys` without their last_used_at.
WithoutLastUsed(keys) ==
  {[id |-> k.id, user_id |-> k.user_id, key_hash |-> k.key_hash] : k \in keys}

\* C12 amended: a denied request never changes the counter store; a 401
\* changes nothing in the credential store; a 429 changes at most the
\* last_used_at of the key it presented.
C12_DenialMutatesOnlyLastUsed ==
  [][\A r \in Reqs : DeniedStep(r) =>
        /\ rate_limit_log' = rate_limit_log
        /\ Get(response'[r]).status = 401 => api_keys' = api_keys
        /\ Get(response'[r]).status = 429 =>
             /\ WithoutLastUsed(api_keys') = WithoutLastUsed(api_keys)
             /\ \A k \in api_keys :
                  k.id # Call(r)'.apiKeyId => k \in api_keys']_vars

\* C12 witness: a request was answered 429 and the last_used_at of its key
\* is set while the other key's is not.
C12_Witness ==
  \E r \in Reqs :
    /\ Refused(r) /\ Get(response[r]).status = 429
    /\ \E k \in api_keys : k.id = Call(r).apiKeyId /\ k.last_used_at # {}
    /\ \E k \in api_keys : k.id # Call(r).apiKeyId /\ k.last_used_at = {}

\* The record of key apiKeyId for window windowStart, {} if there is none.
RowsOf(apiKeyId, windowStart) ==
  SelectRows(rate_limit_log, apiKeyId, windowStart)

\* Every call made so far for request r's key is in a window that has ended.
PriorWindowsOver(r) ==
  \A s \in Reqs :
    (Called(s) /\ Call(s).apiKeyId = Call(r)'.apiKeyId)
      => Call(s).resetAt <= now

\* C14: once a key is exhausted in a window and the clock has reached that
\* window's resetAt, the next call for the key is the first of a new window
\* and returns allowed with remaining maxRequests - 1, and the old window's
\* record is left as it was.
C14_WindowReset ==
  /\ [][\A q, r \in Reqs :
          (/\ Refused(q) /\ Arrives(r) /\ Called(r)'
           /\ Call(r)'.apiKeyId = Call(q).apiKeyId
           /\ PriorWindowsOver(r))
          => (~Denied(r)' /\ Call(r)'.ord = 1)]_vars
  /\ [](\A r \in Reqs :
          (Returned(r) /\ Call(r).ord = 1)
          => /\ Result(r).allowed
             /\ Result(r).remaining = Call(r).config.maxRequests - 1)
  /\ [][\A q, r \in Reqs :
          (/\ Refused(q) /\ Called(r)' /\ rl'[r] # rl[r]
           /\ Call(r)'.apiKeyId = Call(q).apiKeyId
           /\ Call(q).resetAt <= now)
          => RowsOf(Call(q).apiKeyId, Call(q).windowStart)'
               = RowsOf(Call(q).apiKeyId, Call(q).windowStart)]_vars

\* C14 witness: a key was denied in one window, and in the next window its
\* first call was admitted while the old record still holds maxRequests.
C14_Witness ==
  \E q, r \in Reqs :
    /\ Refused(q) /\ Admitted(r)
    /\ Call(r).apiKeyId = Call(q).apiKeyId
    /\ getTime(Call(r).windowStart) >= Call(q).resetAt
    /\ CurrentCount(rate_limit_log, Call(q).apiKeyId, Call(q).windowStart)
         = Call(q).config.maxRequests

\* What validateApiKey's SELECT finds for a plain key in the current store.
FoundByKey(plainKey) == SelectByHash(api_keys, hashApiKey(plainKey))

\* A step in which validateApiKey, called directly, returns.
ValidateReturns ==
  /\ ret' # ret
  /\ ret' # {}
  /\ Get(ret').op = "validateApiKey"

\* C13: for every key createApiKey has issued, validateApiKey of its plain
\* key finds and returns that key's record at any time before deleteApiKey
\* of its id, and undefined at any time after, whatever was issued,
\* validated or revoked for this and other keys meanwhile; a gated request
\* carrying a revoked key is answered 401, one carrying a live key is
\* rate limited as that key.
C13_KeyLifecycle ==
  /\ [](\A i \in issued :
          IF i.id \in revoked
          THEN FoundByKey(i.plainKey) = {}
          ELSE /\ FoundByKey(i.plainKey) # {}
               /\ Get(FoundByKey(i.plainKey)).id = i.id)
  /\ [][ValidateReturns =>
          \A i \in issued : i.plainKey = Get(ret').arg =>
            IF i.id \in revoked
            THEN Get(ret').value = {}
            ELSE /\ Get(ret').value \subseteq api_keys
                 /\ Get(ret').value # {}
                 /\ Get(Get(ret').value).id = i.id]_vars
  /\ [][\A r \in Reqs : \A i \in issued :
          (Arrives(r) /\ extractApiKey(hdr'[r]) = {i.plainKey}) =>
            IF i.id \in revoked
            THEN /\ Get(response'[r]).status = 401
                 /\ ~Called(r)'
            ELSE /\ Called(r)'
                 /\ Call(r)'.apiKeyId = i.id]_vars

\* C13 witness: a key issued after the start is live and was just returned
\* by validateApiKey, while a gated request that carried an earlier key,
\* revoked before it arrived, has been answered 401.
C13_Witness ==
  /\ ret # {} /\ Get(ret).op = "validateApiKey" /\ Get(ret).value # {}
  /\ \E i \in issued \ IssuedAtStart :
       /\ i.plainKey = Get(ret).arg
       /\ Get(Get(ret).value).id = i.id
  /\ \E r \in Reqs : \E i \in issued :
       /\ pc[r] = "done" /\ extractApiKey(hdr[r]) = {i.plainKey}
       /\ i.id \in revoked
       /\ Get(response[r]).status = 401

\* The records of rate_limit_log that belong to keys other than apiKeyId.
RowsOfOthers(apiKeyId) == {row \in rate_limit_log : row.api_key_id # apiKeyId}

\* A step in which getRateLimitStatus returns.
StatusReturns ==
  /\ ret' # ret
  /\ ret' # {}
  /\ Get(ret').op = "getRateLimitStatus"

\* The value getRateLimitStatus has just returned.
StatusValue == Get(Get(ret).value)

\* The count stored for apiKeyId in the window that contains the clock.
CountNow(apiKeyId) ==
  LET W == env.RATE_LIMIT_WINDOW_MS
      rows == {row \in rate_limit_log :
                 /\ row.api_key_id = apiKeyId
                 /\ getTime(row.window_start) <= now
                 /\ now < getTime(row.window_start) + W}
  IN IF rows = {} THEN 0 ELSE (CHOOSE row \in rows : TRUE).request_count

\* C15: a checkRateLimit call and a getRateLimitStatus call for one key
\* never change a record of another key and return what the key's own
\* record gives, whatever the other keys' records hold; however exhausted
\* one key is, another key's first call of the window is allowed with
\* remaining maxRequests - 1.
C15_CredentialIsolation ==
  /\ [][\A r \in Reqs : (Called(r)' /\ rl'[r] # rl[r]) =>
          /\ {row \in rate_limit_log' : row.api_key_id # Call(r)'.apiKeyId}
               = RowsOfOthers(Call(r)'.apiKeyId)
          /\ ~Called(r) => Call(r)'.currentCount = CountNow(Call(r)'.apiKeyId)]_vars
  /\ [][StatusReturns =>
          /\ rate_limit_log' = rate_limit_log
          /\ StatusValue'.count = CountNow(Get(ret').arg)]_vars
  /\ [](\A q, r \in Reqs :
          (/\ Refused(q) /\ Returned(r)
           /\ Call(r).apiKeyId # Call(q).apiKeyId
           /\ Call(r).ord = 1)
          => /\ Result(r).allowed
             /\ Result(r).remaining = Call(r).config.maxRequests - 1)

\* C15 witness: one key has been denied in the current window, after that
\* another key's first call was admitted, and getRateLimitStatus has just
\* returned count 1 for the second key.
C15_Witness ==
  /\ ret # {} /\ Get(ret).op = "getRateLimitStatus"
  /\ StatusValue.count = 1
  /\ \E q, r \in Reqs :
       /\ q < r /\ Refused(q) /\ Admitted(r)
       /\ Call(r).apiKeyId # Call(q).apiKeyId
       /\ Call(r).apiKeyId = Get(ret).arg
       /\ Call(r).windowStart = Call(q).windowStart
       /\ Call(q).resetAt > now

\* C18: getRateLimitStatus changes no state; it returns the stored count of
\* the key's current window (0 when there is no record), remaining =
\* max(0, maxRequests - count), and the resetAt checkRateLimit returns for
\* the same window; being a function of the unchanged stores, a repeated
\* call returns the same count.
C18_StatusReadOnly ==
  [][StatusReturns =>
       LET M == env.RATE_LIMIT_MAX
           W == env.RATE_LIMIT_WINDOW_MS
           v == StatusValue'
       IN /\ rate_limit_log' = rate_limit_log
          /\ api_keys' = api_keys
          /\ v.count = CountNow(Get(ret').arg)
          /\ v.remaining = IF v.count >= M THEN 0 ELSE M - v.count
          /\ v.resetAt > now /\ v.resetAt - W <= now
          /\ \A r \in Reqs :
               (Called(r) /\ getTime(Call(r).windowStart) <= now
                          /\ now < getTime(Call(r).windowStart) + W)
               => Call(r).resetAt = v.resetAt]_vars

\* C18 witness: getRateLimitStatus has returned a count above maxRequests
\* (two overlapping calls were both admitted) with remaining 0.
C18_Witness ==
  /\ ret # {} /\ Get(ret).op = "getRateLimitStatus"
  /\ StatusValue.count > env.RATE_LIMIT_MAX
  /\ StatusValue.remaining = 0
  /\ StatusValue.count = CountNow(Get(ret).arg)

\* A step in which cleanupOldEntries runs and returns.
CleanupReturns ==
  /\ ret' # {}
  /\ Get(ret').op = "cleanupOldEntries"
  /\ pc' = pc /\ now' = now

\* C16: cleanupOldEntries(retentionMs) at time now deletes exactly the
\* records with window_start < now - retentionMs, leaves every other record
\* as it was, and returns the number of records it deleted.
C16_CleanupExact ==
  [][CleanupReturns =>
       LET retentionMs == Get(ret').arg
           kept == {row \in rate_limit_log :
                      ~(getTime(row.window_start) < now - retentionMs)}
       IN /\ rate_limit_log' = kept
          /\ Get(ret').value
               = {Cardinality(rate_limit_log) - Cardinality(kept)}]_vars

\* C16 witness: cleanupOldEntries has just deleted records (returned 1 or
\* more) and a record whose window_start is exactly the cutoff is left.
C16_Witness ==
  /\ ret # {} /\ Get(ret).op = "cleanupOldEntries"
  /\ Get(Get(ret).value) >= 1
  /\ \E row \in rate_limit_log :
       getTime(row.window_start) = now - Get(ret).arg

\* The number of calls admitted so far for the key and window of r's call.
AdmittedLike(r) == Cardinality({q \in CallsLike(r) : Admitted(q)})

\* While key and window of q's denied call last, another call r for that
\* key arrives.
ArrivesWhileExhausted(q, r) ==
  /\ Refused(q) /\ Arrives(r) /\ Called(r)'
  /\ Call(r)'.apiKeyId = Call(q).apiKeyId
  /\ now < Call(q).resetAt

\* C17 as claimed: for every retentionMs >= 0 and wherever cleanupOldEntries
\* runs (between calls, or between one call's count read and its upsert),
\* at most maxRequests requests are admitted per key and window and an
\* exhausted key stays denied until its window ends.
C17_CleanupNeverInterferes ==
  /\ [](\A r \in Reqs : Called(r) =>
          AdmittedLike(r) <= Call(r).config.maxRequests)
  /\ [][\A q, r \in Reqs : ArrivesWhileExhausted(q, r) => Denied(r)']_vars

\* Every cleanupOldEntries call so far had retentionMs >= windowMs.
RetentionCoversWindow ==
  leastRetention = {} \/ Get(leastRetention) >= env.RATE_LIMIT_WINDOW_MS

\* C17 amended: while every cleanupOldEntries call has retentionMs >=
\* windowMs, wherever it runs (between calls, or between one call's count
\* read and its upsert) it leaves the records of windows that have not
\* ended as they were, at most maxRequests requests are admitted per key
\* and window, and an exhausted key stays denied until its window ends.
C17_CleanupSparesActiveWindow ==
  /\ [](\A r \in Reqs : (RetentionCoversWindow /\ Called(r)) =>
          AdmittedLike(r) <= Call(r).config.maxRequests)
  /\ [][\A q, r \in Reqs :
          (RetentionCoversWindow /\ ArrivesWhileExhausted(q, r))
            => Denied(r)']_vars
  /\ [][(CleanupReturns /\ RetentionCoversWindow') =>
          \A row \in rate_limit_log :
            now < getTime(row.window_start) + env.RATE_LIMIT_WINDOW_MS
              => row \in rate_limit_log']_vars

\* C17 witness: between a call's count read and its upsert,
\* cleanupOldEntries with retentionMs >= windowMs has just deleted an
\* old window's record, while a key that was denied stays exhausted.
C17_Witness ==
  /\ RetentionCoversWindow
  /\ ret # {} /\ Get(ret).op = "cleanupOldEntries"
  /\ Get(Get(ret).value) >= 1
  /\ \E r \in Reqs : pc[r] = "upsert"
  /\ \E q \in Reqs : Refused(q)

\* C19: a request that carries a valid key in the X-API-Key header is
\* authenticated as that key and rate limited: checkRateLimit is called for
\* the key, the handler is given the key and its owner, and the response
\* carries the X-RateLimit-* headers, or is the 429 once the key is
\* exhausted.
C19_XApiKeyAuthenticates ==
  \A r \in Reqs : \A i \in IssuedAtStart :
    (pc[r] # "idle" /\ xhdr[r] = {i.plainKey}) =>
      /\ Called(r)
      /\ Call(r).apiKeyId = i.id
      /\ pc[r] \in {"handler", "done"} /\ Allowed(r)
           => Get(ctx[r]).apiKey = {i.id}
      /\ pc[r] = "done" =>
           /\ Get(response[r]).headers.Limit # {}
           /\ Get(response[r]).headers.Remaining # {}
           /\ Get(response[r]).headers.Reset # {}

\* A record (a stored row, a returned row, a response item) has no
\* plainKey field and its key_hash, if it has one, is no issued plain key.
NoPlainKeyIn(record) ==
  /\ "plainKey" \notin DOMAIN record
  /\ "key" \notin DOMAIN record
  /\ "key_hash" \in DOMAIN record =>
       \A i \in issued : record.key_hash # i.plainKey

\* The operations other than the issuing one that return rows or items.
ReadingOps == {"getApiKeyById", "getApiKeys", "validateApiKey", "GET"}

\* C20: createApiKey stores the SHA-256 hash of the key and never the plain
\* key (key_hash # plainKey), and after the issuing return no stored field
\* and no result of getApiKeyById, getApiKeys, validateApiKey or the GET
\* list response holds the plain key; the list items carry no key_hash.
C20_PlainKeyOnlyAtIssue ==
  /\ \A k \in api_keys :
       /\ NoPlainKeyIn(k)
       /\ \A i \in issued : i.id = k.id => k.key_hash = hashApiKey(i.plainKey)
  /\ (ret # {} /\ Get(ret).op \in ReadingOps) =>
       \A v \in Get(ret).value :
         /\ NoPlainKeyIn(v)
         /\ Get(ret).op = "GET" => "key_hash" \notin DOMAIN v
  /\ (ret # {} /\ Get(ret).op = "createApiKey") =>
       \A v \in Get(ret).value :
         /\ NoPlainKeyIn(v.apiKey)
         /\ v.apiKey.key_hash # v.plainKey

\* C20 witness: a key issued after the start is stored and the GET list
\* response that has just been returned lists it.
C20_Witness ==
  /\ ret # {} /\ Get(ret).op = "GET"
  /\ \E i \in issued \ IssuedAtStart :
       /\ \E k \in api_keys : k.id = i.id
       /\ \E v \in Get(ret).value : v.id = i.id

\* ------------------------------------------- the instants of the calls
\* handleRateLimit with checkRateLimit calls that do not overlap, the
\* instant each call reads from the clock (`const now = new Date()`, line
\* 53) kept for the request.
handleRateLimitAt(r, h) ==
  /\ NoCallInFlight
  /\ Gate(r, h)
  /\ at' = [at EXCEPT ![r] = IF rl'[r] # {} THEN {now} ELSE {}]
  /\ UNCHANGED xhdr

\* Calls of checkRateLimit one after another, no cleanup, no key deleted.
NextAt ==
  \/ Tick
  \/ \E r \in Reqs, h \in StoredKeyHeaders : handleRateLimitAt(r, h)
  \/ \E r \in Reqs : Increment(r)

\* Windows as short as one step of the clock, so that the calls can fall
\* in more than two windows.
ShortWindowChoices == {TickStep} \cup WindowChoices

SpecAt == InitWith(ShortWindowChoices) /\ [][NextAt]_vars

\* Instants around the window boundaries.
Instants ==
  UNION {{k * W - 1, k * W, k * W + 1} \cap (0..(2 * MaxTime)) :
           k \in 0..2, W \in ShortWindowChoices} \cup {TickStep, MaxTime}

\* The window index of an instant: floor(t / W).
Bucket(W, t) == t \div W

\* C21: for every instant t >= 0 and window length W > 0, getWindowStart is
\* floor(t / W) * W: a multiple of W with windowStart <= t < windowStart + W,
\* which is resetAt; two instants have the same window exactly when they
\* have the same floor(t / W); the windows are the same for every key.
C21_WindowBucketing ==
  /\ \A W \in ShortWindowChoices, t \in Instants :
       LET ws == getTime(getWindowStart(W, t))
       IN /\ ws = Bucket(W, t) * W
          /\ ws % W = 0
          /\ ws <= t /\ t < ws + W
          /\ \A u \in Instants :
               (getWindowStart(W, u) = getWindowStart(W, t))
                 <=> (Bucket(W, u) = Bucket(W, t))
  /\ \A r \in Reqs : Called(r) =>
       LET W == Call(r).config.windowMs
           t == Get(at[r])
           ws == getTime(Call(r).windowStart)
       IN /\ ws = Bucket(W, t) * W
          /\ ws <= t /\ t < ws + W
          /\ Call(r).resetAt = ws + W
          /\ \A q \in Reqs : Called(q) =>
               (Call(q).windowStart = Call(r).windowStart)
                 <=> (Bucket(W, Get(at[q])) = Bucket(W, t))

\* C21 witness: calls for two different keys at different instants of one
\* window, and a third call at an instant of the next window.
C21_Witness ==
  \E q, r, p \in Reqs :
    /\ Called(q) /\ Called(r) /\ Called(p)
    /\ Call(q).apiKeyId # Call(r).apiKeyId
    /\ Get(at[q]) # Get(at[r])
    /\ Call(q).windowStart = Call(r).windowStart
    /\ Call(p).windowStart # Call(q).windowStart

\* The requests admitted for a key at instants from t0 to t0 + span.
AdmittedIn(apiKeyId, t0, span) ==
  {r \in Reqs : /\ Admitted(r)
                /\ Call(r).apiKeyId = apiKeyId
                /\ t0 <= Get(at[r]) /\ Get(at[r]) <= t0 + span}

\* C22: with checkRateLimit calls that do not overlap and no cleanup, at
\* most 2 * maxRequests requests of one key are admitted in any time span
\* of length at most windowMs.
C22_BurstBound ==
  \A r \in Reqs : Admitted(r) =>
    Cardinality(AdmittedIn(Call(r).apiKeyId, Get(at[r]),
                           env.RATE_LIMIT_WINDOW_MS))
      <= 2 * env.RATE_LIMIT_MAX

\* C22 witness: 2 * maxRequests requests of one key admitted in a span
\* shorter than windowMs that straddles a window boundary.
C22_Witness ==
  \E r \in Reqs :
    /\ Admitted(r)
    /\ LET burst == AdmittedIn(Call(r).apiKeyId, Get(at[r]),
                               env.RATE_LIMIT_WINDOW_MS - 1)
       IN /\ Cardinality(burst) = 2 * env.RATE_LIMIT_MAX
          /\ Cardinality({Call(q).windowStart : q \in burst}) = 2

\* The calls for the key and window of r's call that found no record.
Racers(r) == {q \in CallsLike(r) : Call(q).currentCount = 0}

\* C23: when several overlapping checkRateLimit calls all find no record for
\* one key and window and all go on to create it, none of them ends in an
\* error, each returns allowed, and once they have returned the stored count
\* is the number of those calls: the inserts that came second were applied
\* as increments.
C23_LostInsertRace ==
  \A r \in Reqs : (Called(r) /\ Racers(r) = CallsLike(r)) =>
    /\ \A q \in Racers(r) :
         /\ pc[q] # "threw"
         /\ Returned(q) => Admitted(q)
    /\ (\A q \in Racers(r) : Returned(q)) =>
         StoredCount(r) = Cardinality(Racers(r))

\* C23 witness: three calls found no record for one key and window, all
\* three have returned, and the stored count is 3.
C23_Witness ==
  \E r \in Reqs :
    /\ Called(r) /\ Racers(r) = CallsLike(r)
    /\ Cardinality(Racers(r)) = NumReqs
    /\ \A q \in Racers(r) : Admitted(q)
    /\ StoredCount(r) = NumReqs

\* --------------------------------------- handlers and stores that fail
\* What a handler may return: data, an error status with an error body, and
\* an error status with a Retry-After header of its own.
HandlerResponses ==
  {HandlerResponse(200),
   JsonResponse(404, ErrorBody("Not found", {})),
   setRetryAfter(JsonResponse(500, ErrorBody("Internal server error", {})),
                 5)}

\* withRateLimit lines 166-175 for any of the handler's responses.
withRateLimitAny(r) == \E resp \in HandlerResponses : RespondWith(r, resp)

\* Variant of a throwing handler: the wrapper catches the exception and
\* takes the request's increment back.
HandlerThrowsRefund(r) ==
  /\ pc[r] = "handler"
  /\ handlerCalls' = [handlerCalls EXCEPT ![r] = @ + 1]
  /\ pc' = [pc EXCEPT ![r] = "handlerThrew"]
  /\ rate_limit_log' =
       IF rl[r] = {} THEN rate_limit_log
       ELSE {[row EXCEPT !.request_count =
                IF /\ row.api_key_id = Get(rl[r]).apiKeyId
                   /\ row.window_start = Get(rl[r]).windowStart
                THEN @ - 1 ELSE @] : row \in rate_limit_log}
  /\ UNCHANGED <<now, env, api_keys, hdr, ctx, rl, response, handled,
                 xhdr, at, leastRetention, issued, revoked, ret>>

\* withRateLimit line 166, `await handler(...)` rejects: there is no
\* try/catch, the exception leaves the wrapper and no response is returned.
HandlerThrows(r) ==
  /\ pc[r] = "handler"
  /\ handlerCalls' = [handlerCalls EXCEPT ![r] = @ + 1]
  /\ pc' = [pc EXCEPT ![r] = "handlerThrew"]
  /\ UNCHANGED <<now, env, api_keys, rate_limit_log, hdr, ctx, rl, response,
                 handled, xhdr, at, leastRetention, issued, revoked, ret>>

\* The client aborts the request while the handler runs: the wrapper has
\* no abort handling, nothing is delivered and nothing else is done.
RequestAborted(r) ==
  /\ pc[r] = "handler"
  /\ handlerCalls' = [handlerCalls EXCEPT ![r] = @ + 1]
  /\ pc' = [pc EXCEPT ![r] = "aborted"]
  /\ UNCHANGED <<now, env, api_keys, rate_limit_log, hdr, ctx, rl, response,
                 handled, xhdr, at, leastRetention, issued, revoked, ret>>

\* handleRateLimit lines 107 and 120: a statement of validateApiKey or of
\* checkRateLimit's count SELECT throws (the database is locked, full or
\* gone). When it is validateApiKey's own SELECT or UPDATE nothing has been
\* written; when it is checkRateLimit's SELECT, last_used_at has been.
StoreFails(r, h) ==
  /\ pc[r] = "idle"
  /\ \A q \in Reqs : q < r => pc[q] # "idle"
  /\ extractApiKey(h) # {}
  /\ hdr' = [hdr EXCEPT ![r] = h]
  /\ LET found == SelectByHash(api_keys,
                               hashApiKey(Get(extractApiKey(h))))
     IN \/ api_keys' = api_keys
        \/ /\ found # {}
           /\ api_keys' = TouchLastUsed(api_keys, Get(found).id, now)
  /\ StoreThrows(r)
  /\ UNCHANGED <<now, env, rate_limit_log, response, handlerCalls, handled,
                 xhdr, at, leastRetention, issued, revoked, ret>>

\* checkRateLimit lines 80-86: the upsert statement throws, nothing is
\* written.
UpsertFails(r) ==
  /\ pc[r] = "upsert"
  /\ StoreThrows(r)
  /\ UNCHANGED <<now, env, api_keys, rate_limit_log, hdr, response,
                 handlerCalls, handled, xhdr, at, leastRetention, issued,
                 revoked, ret>>

\* The headers of the requests in SpecFaults: no key, and a stored key.
FaultHeaders == {{}, {AuthHeader("Bearer", 1, generateApiKey("s1"))}}

\* The requests that arrive in SpecFaults.
ServedReqs == 1..MaxServed

NextFaults ==
  \/ Tick
  \/ \E r \in ServedReqs, h \in FaultHeaders : handleRateLimit(r, h)
  \/ \E r \in ServedReqs, h \in FaultHeaders : StoreFails(r, h)
  \/ \E r \in ServedReqs : Increment(r)
  \/ \E r \in ServedReqs : UpsertFails(r)
  \/ \E r \in ServedReqs : withRateLimitAny(r)
  \/ \E r \in ServedReqs : HandlerThrows(r)
  \/ \E r \in ServedReqs : RequestAborted(r)

SpecFaults == Init /\ [][NextFaults]_vars

\* The handler of request r is over: it returned, threw, or the request
\* was aborted.
HandlerOver(r) == pc[r] = "handler" /\ pc'[r] # "handler"

\* C24: once checkRateLimit has incremented the count for an admitted
\* request, nothing that happens afterwards takes the increment back: the
\* step in which the handler returns (an error status included), throws or
\* the request is aborted leaves the counter store as it is, no stored count
\* ever decreases, and the stored count of a key and window stays at least
\* the number of requests admitted for them.
C24_ChargedOnAdmission ==
  /\ [][\A r \in Reqs : HandlerOver(r) =>
          rate_limit_log' = rate_limit_log]_vars
  /\ [][\A row \in rate_limit_log : \E kept \in rate_limit_log' :
          /\ kept.api_key_id = row.api_key_id
          /\ kept.window_start = row.window_start
          /\ kept.request_count >= row.request_count]_vars
  /\ [](\A r \in Reqs : Admitted(r) => StoredCount(r) >= AdmittedLike(r))

\* C24 witness: two requests admitted for one key and window; the handler
\* of one threw, the handler of the other returned status 500, and the
\* stored count is 2.
C24_Witness ==
  \E q, r \in Reqs :
    /\ Admitted(q) /\ Admitted(r) /\ SameKeyWindow(q, r)
    /\ pc[q] = "handlerThrew"
    /\ pc[r] = "done" /\ Get(response[r]).status = 500
    /\ StoredCount(r) = 2

\* C25: a request during whose validateApiKey or checkRateLimit the store
\* threw gets no response from the gate (no 401, no 429) and its handler is
\* not invoked; a handler runs for a request with a key only after that
\* request's checkRateLimit returned allowed, and a 401 or 429 is returned
\* only for an unknown key or a call that returned denied.
C25_StoreFailurePropagates ==
  \A r \in Reqs :
    /\ pc[r] = "threw" =>
         /\ response[r] = {} /\ ctx[r] = {}
         /\ handlerCalls[r] = 0 /\ handled[r] = {}
         /\ ~Returned(r)
    /\ (ctx[r] # {} \/ handlerCalls[r] > 0) =>
         (extractApiKey(hdr[r]) = {} \/ Admitted(r))
    /\ Denied(r) => (UnknownKey(hdr[r]) \/ Refused(r))

\* C25 witness: the store threw for one request before checkRateLimit read
\* the count, after validateApiKey had written last_used_at, and for
\* another request at the upsert, which wrote no record.
C25_Witness ==
  \E q, r \in Reqs :
    /\ pc[q] = "threw" /\ ~Called(q)
    /\ \E k \in api_keys : k.last_used_at # {}
    /\ pc[r] = "threw" /\ Called(r) /\ StoredCount(r) = 0

\* C26: the response to an admitted request with a key is the handler's own
\* response, same status, body and other headers, with X-RateLimit-Limit =
\* maxRequests, X-RateLimit-Remaining = remaining and X-RateLimit-Reset =
\* ceil(resetAt / 1000) of the request's one checkRateLimit result; the
\* handler ran once, with the key and the user the key belongs to.
C26_AllowedResponseAnnotated ==
  \A r \in Reqs : (pc[r] = "done" /\ Admitted(r)) =>
    /\ response[r] # {} /\ handled[r] # {}
    /\ LET resp == Get(response[r])
           own == Get(handled[r])
       IN /\ resp.status = own.status
          /\ resp.body = own.body
          /\ resp.headers.RetryAfter = own.headers.RetryAfter
          /\ resp.headers.Limit = {ToString(Call(r).config.maxRequests)}
          /\ resp.headers.Remaining = {ToString(Result(r).remaining)}
          /\ resp.headers.Reset =
               {ToString(CeilDiv(Result(r).resetAt, MS_PER_SECOND))}
    /\ handlerCalls[r] = 1
    /\ \E k \in api_keys :
         /\ k.key_hash = hashApiKey(Get(extractApiKey(hdr[r])))
         /\ ctx[r] = {[apiKey |-> {k.id}, userId |-> k.user_id]}

\* C26 witness: an admitted request whose handler returned status 500 with
\* a Retry-After header of its own got that response back with the three
\* quota headers added.
C26_Witness ==
  \E r \in Reqs :
    /\ pc[r] = "done" /\ Admitted(r)
    /\ Get(handled[r]).status = 500
    /\ Get(handled[r]).headers.RetryAfter = {"5"}
    /\ Get(response[r]).headers.RetryAfter = {"5"}
    /\ Get(response[r]).headers.Limit # {}
    /\ Get(response[r]) # Get(handled[r])

\* ------------------------------------------- the environment changes
\* process.env.RATE_LIMIT_MAX or process.env.RATE_LIMIT_WINDOW_MS is
\* assigned while the process runs.
setEnv(e) ==
  /\ e # env
  /\ env' = e
  /\ UNCHANGED <<now, api_keys, rate_limit_log, pc, hdr, ctx, rl, response,
                 handlerCalls, handled, xhdr, at, leastRetention, issued,
                 revoked, ret>>

\* The values the two variables can be given.
EnvChoices == [RATE_LIMIT_MAX : 1..MaxM, RATE_LIMIT_WINDOW_MS : WindowChoices]

\* Requests with a stored key, one checkRateLimit call after another, in a
\* process whose environment can be changed.
NextEnv ==
  \/ Tick
  \/ \E e \in EnvChoices : setEnv(e)
  \/ \E r \in ServedReqs, h \in StoredKeyHeaders : handleRateLimitSeq(r, h)
  \/ \E r \in ServedReqs : Increment(r)

SpecEnv == Init /\ [][NextEnv]_vars

\* C27: every request of one process is checked against the same
\* maxRequests and windowMs, also when RATE_LIMIT_MAX or
\* RATE_LIMIT_WINDOW_MS change after startup.
C27_ConfigReadOnce ==
  \A q, r \in Reqs : (Called(q) /\ Called(r)) =>
    Call(q).config = Call(r).config

\* ------------------------------------------ every operation interleaved
\* Requests with keys whose checkRateLimit calls overlap, and around and
\* between their statements getRateLimitStatus, cleanupOldEntries,
\* createApiKey and deleteApiKey (another request of the process, or another
\* process on the same database file).
\* The requests of SpecAll carry the stored key k1, whose status is asked;
\* the keys deleted are k1 and the first key createApiKey issues.
FirstIssued == Cardinality(IssuedAtStart) + 1
DeletedIds == {"k1", randomUUID(FirstIssued)}
ContestedHeader == {AuthHeader("Bearer", 1, generateApiKey("s1"))}

NextAll ==
  \/ Tick
  \/ createApiKeyCall("user_1")
  \/ \E id \in DeletedIds : deleteApiKeyCall(id)
  \/ getRateLimitStatus("k1")
  \/ \E retentionMs \in RetentionChoices : cleanupOldEntries(retentionMs)
  \/ \E r \in ServedReqs : handleRateLimit(r, ContestedHeader)
  \/ \E r \in ServedReqs : Increment(r)

SpecAll == Init /\ [][NextAll]_vars

\* C28: in every reachable state, whatever the interleaving of
\* checkRateLimit, getRateLimitStatus, cleanupOldEntries, createApiKey and
\* deleteApiKey, rate_limit_log holds at most one record per (api_key_id,
\* window_start).
C28_OneRecordPerKeyWindow ==
  \A a, b \in rate_limit_log :
    (a.api_key_id = b.api_key_id /\ a.window_start = b.window_start) => a = b

\* C28 witness: two overlapping calls both found no record for one key and
\* window and both wrote, the record holds count 2, while a key was created,
\* another deleted and a cleanup has run.
C28_Witness ==
  /\ \E q, r \in Reqs :
       /\ q # r /\ Admitted(q) /\ Admitted(r) /\ SameKeyWindow(q, r)
       /\ Call(q).currentCount = 0 /\ Call(r).currentCount = 0
       /\ StoredCount(r) = 2
  /\ issued # IssuedAtStart /\ revoked # {} /\ leastRetention # {}

\* The key of r's call is no longer stored.
KeyGone(r) == \A k \in api_keys : k.id # Call(r).apiKeyId

\* C29: every record of rate_limit_log belongs to a stored key: the delete
\* of a key takes the key's records with it, and the upsert of a call whose
\* key was deleted after its validation writes no record and the call does
\* not return allowed (it throws: no result, no response, no handler).
C29_RecordsHaveKeys ==
  /\ [](\A row \in rate_limit_log :
          \E k \in api_keys : k.id = row.api_key_id)
  /\ [][\A r \in Reqs :
          (pc[r] = "upsert" /\ pc'[r] # "upsert" /\ KeyGone(r)) =>
            /\ rate_limit_log' = rate_limit_log
            /\ pc'[r] = "threw"
            /\ ~Returned(r)' /\ ctx'[r] = {} /\ response'[r] = {}]_vars

\* C29 witness: a key that had a record was deleted while a call for it
\* was between its count read and its upsert; the upsert threw and the log
\* holds no record of that key.
C29_Witness ==
  \E r \in Reqs :
    /\ pc[r] = "threw" /\ Called(r) /\ KeyGone(r)
    /\ Call(r).currentCount > 0
    /\ \A row \in rate_limit_log : row.api_key_id # Call(r).apiKeyId

\* The Retry-After seconds of r's denied call: ceil(retryAfterMs / 1000).
RetryAfterSeconds(r) == CeilDiv(Get(Result(r).retryAfterMs), MS_PER_SECOND)

\* The instant Retry-After seconds after r's call.
RetryInstant(r) == Get(at[r]) + MS_PER_SECOND * RetryAfterSeconds(r)

\* C30: for every denial at instant t in window w, 0 < retryAfterMs =
\* resetAt - t <= windowMs and the Retry-After header is
\* ceil(retryAfterMs / 1000), so t + 1000 * Retry-After >= resetAt: that
\* instant, and every call made at or after it, falls in a window later
\* than w.
C30_RetryAfterSufficient ==
  \A q \in Reqs : Refused(q) =>
    LET t == Get(at[q])
        W == Call(q).config.windowMs
        ms == Get(Result(q).retryAfterMs)
    IN /\ Result(q).retryAfterMs # {}
       /\ 0 < ms /\ ms = Call(q).resetAt - t /\ ms <= W
       /\ Get(response[q]).status = STATUS_TOO_MANY
       /\ Get(response[q]).headers.RetryAfter =
            {ToString(RetryAfterSeconds(q))}
       /\ RetryInstant(q) >= Call(q).resetAt
       /\ getTime(getWindowStart(W, RetryInstant(q))) >= Call(q).resetAt
       /\ \A r \in Reqs :
            (Called(r) /\ Call(r).apiKeyId = Call(q).apiKeyId
               /\ Get(at[r]) >= RetryInstant(q)) =>
              /\ getTime(Call(r).windowStart) >= Call(q).resetAt
              /\ Call(r).windowStart # Call(q).windowStart

\* C30 witness: a request was denied with less than a whole second left in
\* its window, and a request with the same key sent Retry-After seconds
\* later was admitted.
C30_Witness ==
  \E q, r \in Reqs :
    /\ Refused(q) /\ Admitted(r)
    /\ Call(r).apiKeyId = Call(q).apiKeyId
    /\ Get(Result(q).retryAfterMs) < MS_PER_SECOND
    /\ Get(at[r]) = RetryInstant(q)

====
